---- MODULE Spec2Model ----
(***************************************************************************)
(* Model of the monday.com <-> Zoho Cliq relay (Shravanthi20/cliqsprint).  *)
(*                                                                         *)
(* The repository holds three versions of the server entry point           *)
(* (server/server.js, unnamed/part_000, unnamed/part_001) and two versions *)
(* of the token store module (server/db.js, unnamed/part_002).  The build  *)
(* that runs is chosen in Init (serverFile, dbFile); every action follows  *)
(* the code of the file that the build runs.                               *)
(*                                                                         *)
(* JavaScript values: '' is "", null is "null", undefined is "undefined";  *)
(* a null number or Date is -1.  Tokens are non-empty strings.             *)
(***************************************************************************)
EXTENDS Integers, Sequences, FiniteSets, TLC

\* ---------------------------------------------------------------- bounds
MaxRequests == 2      \* inbound requests handled in one run of the process
MaxCalls == 3         \* calls a direct client of the db module makes

\* ---------------------------------------------------------------- values
ServerFiles == {"server.js", "part_000", "part_001"}
DbFiles == {"db.js", "part_002"}
Tokens == {"tokA", "tokB"}
Req == 1..MaxRequests

Falsy(v) == v \in {"", "null", "undefined"}
FalsyNum(n) == n <= 0
\* JavaScript a || b on strings and on numbers
Or(a, b) == IF Falsy(a) THEN b ELSE a
OrNum(a, b) == IF FalsyNum(a) THEN b ELSE a

\* ------------------------------------------------- db.js: the tokens store
NoDoc == [service |-> "", access_token |-> "", refresh_token |-> "",
          expires_at |-> -1, updated_at |-> -1]

\* saveToken: the document built before the updateOne call
ExpiresAt(expires_in, t) == IF FalsyNum(expires_in) THEN -1 ELSE t + expires_in * 1000
MakeDoc(service, access_token, refresh_token, expires_in, t) ==
  [service |-> service, access_token |-> access_token,
   refresh_token |-> refresh_token,
   expires_at |-> ExpiresAt(expires_in, t), updated_at |-> t]

\* collection.findOne({service}): first matching document in natural order
Matches(coll, service) == {i \in 1..Len(coll) : coll[i].service = service}
FirstMatch(coll, service) ==
  CHOOSE i \in Matches(coll, service) : \A j \in Matches(coll, service) : i <= j
FindOne(coll, service) ==
  IF Matches(coll, service) = {} THEN NoDoc ELSE coll[FirstMatch(coll, service)]

\* getToken: doc?.access_token || null
DocAccessToken(doc) == IF doc = NoDoc THEN "null" ELSE Or(doc.access_token, "null")

\* updateOne({service}, {$set: doc}): the update half, on the first match
UpdateFirst(coll, doc) ==
  [coll EXCEPT ![FirstMatch(coll, doc.service)] = doc]
\* the insert half of an upsert
InsertDoc(coll, doc) == Append(coll, doc)
\* a store that inserts on every save instead of upserting
Upsert_InsertOnly(coll, doc) == InsertDoc(coll, doc)
\* an upsert that the server applies as one step (unique index on service)
Upsert(coll, doc) ==
  IF Matches(coll, doc.service) = {} THEN InsertDoc(coll, doc) ELSE UpdateFirst(coll, doc)

\* ------------------------------------------------------------------ state
VARIABLES
  serverFile,         \* which server entry point runs
  dbFile,             \* which db module it requires
  mongoUri,           \* process.env.MONGODB_URI is set
  phase,              \* start(): "boot", "connected", "listening", "exited"
  db,                 \* db.js: let db (TRUE when the handle is set)
  tokens,             \* the 'tokens' collection, a sequence of documents
  uniqueIndex,        \* unique index on tokens.service exists
  mondayAccessToken,  \* server: let mondayAccessToken
  envToken,           \* process.env.MONDAY_ACCESS_TOKEN
  oauthToken,         \* lib/monday.js: let oauthToken
  now,                \* Date.now(), one tick per saveToken call
  reqs,               \* inbound requests: position and locals of each handler
  lastUpdate,         \* who last wrote mondayAccessToken: 0 start(), r request, -1 nobody
  lastApplied,        \* the request whose upsert the store applied last, 0 when none
  storeAtStart,       \* the access_token the store held when the process started
  dbLog               \* calls a direct client of the db module has made, with results

vars == <<serverFile, dbFile, mongoUri, phase, db, tokens, uniqueIndex,
          mondayAccessToken, envToken, oauthToken, now, reqs, lastUpdate,
          lastApplied, storeAtStart, dbLog>>

buildVars == <<serverFile, dbFile, mongoUri, storeAtStart, dbLog>>
cacheVars == <<mondayAccessToken, envToken, oauthToken, lastUpdate>>
storeVars == <<db, tokens, uniqueIndex, lastApplied>>

NewReq == [kind |-> "none", pc |-> "idle", status |-> 0, body |-> "", echo |-> "",
           token |-> "", cached |-> "", stored |-> "", doc |-> NoDoc,
           reads |-> 0, posts |-> 0, calls |-> 0, sent |-> "", responses |-> 0,
           answer |-> "", granted |-> "", board |-> "", challenge |-> "",
           code |-> "", saveFailed |-> FALSE]

\* res.status(s).send(b) / res.json(b): one response, the handler is over
Respond(rec, s, b) ==
  [rec EXCEPT !.status = s, !.body = b, !.responses = @ + 1, !.pc = "done"]

\* server.js:18 seeds the variable from the environment; the others start at ''
InitialAccessToken(file, env) == IF file = "server.js" THEN Or(env, "") ELSE ""

InitialDocs == {<<>>, <<MakeDoc("monday", "tokB", "null", -1, 0)>>}

Init ==
  /\ serverFile \in ServerFiles
  /\ dbFile \in DbFiles
  /\ mongoUri \in BOOLEAN
  /\ phase = "boot"
  /\ db = FALSE
  /\ tokens \in InitialDocs
  /\ ~mongoUri => (tokens = <<>> /\ dbFile = "db.js")   \* no store: neither is used
  /\ uniqueIndex = FALSE
  /\ envToken \in {"undefined", "tokA"}
  /\ mondayAccessToken = InitialAccessToken(serverFile, envToken)
  /\ oauthToken = Or(envToken, "")
  /\ now = 1
  /\ reqs = [r \in Req |-> NewReq]
  /\ lastUpdate = -1
  /\ lastApplied = 0
  /\ dbLog = <<>>
  /\ storeAtStart = DocAccessToken(FindOne(tokens, "monday"))

\* ------------------------------------------------------------- start()
\* connectDB(): no URI -> null; else connect (db.js also ensures the unique
\* index); a connect error is thrown and start() exits the process.
\* a connectDB that throws when no connection string is configured
ConnectDB_RequiresUri(ok) ==
  /\ IF mongoUri
     THEN db' = TRUE /\ uniqueIndex' = (uniqueIndex \/ dbFile = "db.js")
     ELSE UNCHANGED <<db, uniqueIndex>>
  /\ ok = mongoUri
  /\ UNCHANGED <<tokens, lastApplied>>
\* connectDB(); ok is FALSE when it throws
ConnectDB(ok) ==
  /\ \/ /\ ~mongoUri                   \* warn, return null
        /\ UNCHANGED <<db, uniqueIndex>>
     \/ /\ mongoUri                    \* connected
        /\ db' = TRUE
        /\ uniqueIndex' = (uniqueIndex \/ dbFile = "db.js")
     \/ /\ mongoUri /\ ~db             \* client.connect() rejects
        /\ UNCHANGED <<db, uniqueIndex>>
  /\ ok = (db' \/ ~mongoUri)
  /\ UNCHANGED <<tokens, lastApplied>>

\* server.js listens right after connectDB; the others load the token first
AfterConnect(file) == IF file = "server.js" THEN "listening" ELSE "connected"

StartConnect ==
  /\ phase = "boot"
  /\ \E ok \in BOOLEAN :
       /\ ConnectDB(ok)
       /\ phase' = IF ok THEN AfterConnect(serverFile) ELSE "exited"
  /\ UNCHANGED <<buildVars, cacheVars, now, reqs>>

\* the token a successful update stores in the cache: variable, lib, environment
SeedEnv(file, where, env, tok) ==
  IF file = "server.js" /\ where = "fallback" THEN env ELSE tok

\* part_000 / part_001 start(): const saved = await getToken('monday')
StartLoadToken ==
  /\ phase = "connected"
  /\ \/ /\ LET saved == IF db THEN DocAccessToken(FindOne(tokens, "monday")) ELSE "null" IN
           IF ~Falsy(saved)
           THEN /\ mondayAccessToken' = saved
                /\ oauthToken' = saved
                /\ envToken' = SeedEnv(serverFile, "start", envToken, saved)
                /\ lastUpdate' = 0
           ELSE UNCHANGED cacheVars
        /\ phase' = "listening"
     \/ /\ db                      \* findOne rejects: caught, process.exit(1)
        /\ phase' = "exited"
        /\ UNCHANGED cacheVars
  /\ UNCHANGED <<buildVars, storeVars, now, reqs>>

\* requests are numbered in the order in which they arrive
Arrives(r) ==
  /\ phase = "listening"
  /\ reqs[r].kind = "none"
  /\ IF r = 1 THEN TRUE ELSE reqs[r - 1].kind # "none"

\* ------------------------------------------- GET /monday/oauth/callback
Codes == {"undefined", "", "c0de"}

\* what the provider's token endpoint can answer to the one POST
TokenAnswers ==
  {[kind |-> "transport", access_token |-> "undefined", refresh_token |-> "undefined", expires_in |-> -1],
   [kind |-> "non2xx", access_token |-> "undefined", refresh_token |-> "undefined", expires_in |-> -1],
   [kind |-> "nodata", access_token |-> "undefined", refresh_token |-> "undefined", expires_in |-> -1],
   [kind |-> "ok", access_token |-> "undefined", refresh_token |-> "refA", expires_in |-> 1],
   [kind |-> "ok", access_token |-> "", refresh_token |-> "undefined", expires_in |-> -1],
   [kind |-> "ok", access_token |-> "tokA", refresh_token |-> "undefined", expires_in |-> -1],
   [kind |-> "ok", access_token |-> "tokB", refresh_token |-> "refB", expires_in |-> 1]}

\* axios.post rejects on a transport failure and on a non-2xx status
AxiosRejects(ans) == ans.kind \in {"transport", "non2xx"}
\* an exchange that takes the wrong field of the answer
ExchangedToken_Refresh(ans) == IF ans.kind = "ok" THEN ans.refresh_token ELSE "undefined"
\* resp.data?.access_token
ExchangedToken(ans) == IF ans.kind = "ok" THEN ans.access_token ELSE "undefined"
\* a check that only catches a missing field, not an empty one
TokenMissing_OnlyUndefined(access) == access = "undefined"
\* if (!access) return res.status(500)
TokenMissing(access) == Falsy(access)

\* a handler without the check of the code parameter
CodeMissing_Never(code) == FALSE
\* if (!code) return res.status(400)
CodeMissing(code) == Falsy(code)

\* a catch block that issues the POST once more before it gives up
ExchangeFailed_Retry(rec) ==
  IF rec.posts < 2 THEN [rec EXCEPT !.posts = @ + 1]
  ELSE Respond(rec, 500, "oauth_failed")
\* catch (err) { res.status(500).send(...) }: the POST is not issued again
ExchangeFailed(rec) == Respond(rec, 500, "oauth_failed")

\* a handler without the inner try/catch: the outer catch answers 500
SaveFailed_Propagates(rec) ==
  Respond([rec EXCEPT !.saveFailed = TRUE], 500, "oauth_failed")
\* catch (err2) { console.error(...) } then res.send("OAuth complete...")
SaveFailed(rec) ==
  Respond([rec EXCEPT !.saveFailed = TRUE], 200, "oauth_complete")

\* a failure path that clears the token it could not renew
KeepToken_Reset(mem) == ""
\* the failure paths return before mondayAccessToken = access: it keeps its value
KeepToken(mem) == mem

\* const code = req.query.code; if (!code) return 400; else the POST is issued
OAuthCallback(r) ==
  /\ Arrives(r)
  /\ \E code \in Codes :
       reqs' = [reqs EXCEPT ![r] =
         IF CodeMissing(code)
         THEN Respond([@ EXCEPT !.kind = "callback", !.code = code], 400, "no_code")
         ELSE [@ EXCEPT !.kind = "callback", !.code = code,
                        !.pc = "exchanging", !.posts = @ + 1]]
  /\ UNCHANGED <<buildVars, phase, storeVars, cacheVars, now>>

\* the handler after the awaited POST, up to the await of saveToken
OAuthTokenAnswer(r) ==
  /\ reqs[r].kind = "callback"
  /\ reqs[r].pc = "exchanging"
  /\ \E ans \in TokenAnswers :
       LET access == ExchangedToken(ans)
           rec == [reqs[r] EXCEPT !.token = access, !.granted = ans.access_token,
                     !.answer = IF AxiosRejects(ans) THEN "rejected" ELSE "answered"] IN
       IF AxiosRejects(ans)
       THEN /\ reqs' = [reqs EXCEPT ![r] = ExchangeFailed(rec)]
            /\ mondayAccessToken' = KeepToken(mondayAccessToken)
            /\ UNCHANGED <<envToken, oauthToken, lastUpdate, now>>
       ELSE IF TokenMissing(access)
       THEN /\ reqs' = [reqs EXCEPT ![r] = Respond(rec, 500, "exchange_failed")]
            /\ mondayAccessToken' = KeepToken(mondayAccessToken)
            /\ UNCHANGED <<envToken, oauthToken, lastUpdate, now>>
       ELSE /\ mondayAccessToken' = access
            /\ oauthToken' = access
            /\ envToken' = SeedEnv(serverFile, "exchange", envToken, access)
            /\ lastUpdate' = r
            /\ reqs' = [reqs EXCEPT ![r] =
                 IF ~db                         \* saveToken: if (!db) return null
                 THEN Respond(rec, 200, "oauth_complete")
                 ELSE [rec EXCEPT !.pc = "saving",
                                  !.doc = MakeDoc("monday", access,
                                                  Or(ans.refresh_token, "null"),
                                                  OrNum(ans.expires_in, -1), now)]]
            /\ now' = IF db THEN now + 1 ELSE now
  /\ UNCHANGED <<buildVars, phase, storeVars>>

\* the store applies updateOne({service}, {$set: doc}, {upsert: true}), or the
\* call rejects; either way the handler goes on to res.send.  With the unique
\* index on service the upsert is one step; without it the server first looks
\* for a match and inserts in a later step when it found none.
OAuthSaveDone(r) ==
  /\ reqs[r].kind = "callback"
  /\ reqs[r].pc = "saving"
  /\ \/ /\ UNCHANGED tokens
        /\ reqs' = [reqs EXCEPT ![r] = SaveFailed(@)]
        /\ UNCHANGED lastApplied
     \/ /\ uniqueIndex \/ Matches(tokens, "monday") # {}
        /\ tokens' = Upsert(tokens, reqs[r].doc)
        /\ lastApplied' = r
        /\ reqs' = [reqs EXCEPT ![r] = Respond(@, 200, "oauth_complete")]
     \/ /\ ~uniqueIndex /\ Matches(tokens, "monday") = {}
        /\ UNCHANGED <<tokens, lastApplied>>
        /\ reqs' = [reqs EXCEPT ![r].pc = "inserting"]
  /\ UNCHANGED <<buildVars, phase, db, uniqueIndex, cacheVars, now>>

OAuthSaveInsert(r) ==
  /\ reqs[r].kind = "callback"
  /\ reqs[r].pc = "inserting"
  /\ tokens' = InsertDoc(tokens, reqs[r].doc)
  /\ lastApplied' = r
  /\ reqs' = [reqs EXCEPT ![r] = Respond(@, 200, "oauth_complete")]
  /\ UNCHANGED <<buildVars, phase, db, uniqueIndex, cacheVars, now>>

\* --------------------------------------------- GET /monday/create-webhook
Boards == {"undefined", "abc", "0", "123"}

\* parseInt(req.query.board, 10); NaN is -1
ParseInt(board) == IF board = "123" THEN 123 ELSE IF board = "0" THEN 0 ELSE -1
\* a check that only catches an empty parameter, not a missing one
BoardMissing_OnlyEmpty(file, board) == board = ""
\* if (!boardId) return 400: part_001 tests the parsed integer, the others the string
BoardMissing(file, board) ==
  IF file = "part_001" THEN FalsyNum(ParseInt(board)) ELSE Falsy(board)

\* a cache read that forgets the environment setting
CurrentToken_MemOnly(mem, env) == mem
\* mondayAccessToken || process.env.MONDAY_ACCESS_TOKEN
CurrentToken(mem, env) == Or(mem, env)

\* what the provider's API can answer to the create_webhook mutation
ApiAnswers == {"data", "errors", "non2xx", "transport"}
ApiRejects(ans) == ans \in {"non2xx", "transport"}

\* axios.post('https://api.monday.com/v2', ..., {Authorization: token})
CallProvider(rec, tok) ==
  [rec EXCEPT !.pc = "calling", !.calls = @ + 1, !.sent = tok, !.token = tok]

\* a registration that always reloads the token from the store
NeedsStore_Always(token) == TRUE
\* if (!token) { token = await getToken('monday') ... }
NeedsStore(token) == Falsy(token)
\* a check that only catches the empty string, not null
NotAuthorized_OnlyEmpty(token) == token = ""
\* if (!token) return res.status(400)
NotAuthorized(token) == Falsy(token)
\* a token check that returns without sending a response
Authorize_NoResponse(rec, token) ==
  IF NotAuthorized(token) THEN [rec EXCEPT !.pc = "returned"] ELSE CallProvider(rec, token)
\* if (!token) return res.status(400).send(...); else the provider is called
Authorize(rec, token) ==
  IF NotAuthorized(token) THEN Respond(rec, 400, "no_token") ELSE CallProvider(rec, token)

\* the handler up to its first await: board check, cache read, then either
\* the provider call or getToken('monday')
CreateWebhook(r) ==
  /\ Arrives(r)
  /\ \E board \in Boards :
       LET token == CurrentToken(mondayAccessToken, envToken)
           rec == [reqs[r] EXCEPT !.kind = "register", !.board = board] IN
       reqs' = [reqs EXCEPT ![r] =
         IF BoardMissing(serverFile, board)
         THEN Respond(rec, 400, "no_board")
         ELSE IF ~NeedsStore(token)
         THEN Authorize([rec EXCEPT !.cached = token], token)
         ELSE IF ~db                            \* getToken: if (!db) return null
         THEN Authorize([rec EXCEPT !.cached = token, !.reads = @ + 1, !.stored = "null"],
                        "null")
         ELSE [rec EXCEPT !.cached = token, !.reads = @ + 1, !.pc = "reading"]]
  /\ UNCHANGED <<buildVars, phase, storeVars, cacheVars, now>>

\* a fallback that uses the token it found without keeping it
FallbackToken_NotCached(mem, token) == mem
\* if (token) { mondayAccessToken = token; ... }
FallbackToken(mem, token) == token

\* findOne answers (or rejects: caught, token stays as it was); a token found
\* is put in the cache, then the provider is called
CreateWebhookStoreAnswer(r) ==
  /\ reqs[r].kind = "register"
  /\ reqs[r].pc = "reading"
  /\ \/ /\ reqs' = [reqs EXCEPT ![r] =
             Authorize([@ EXCEPT !.stored = "rejected"], reqs[r].cached)]
        /\ UNCHANGED cacheVars
     \/ LET token == DocAccessToken(FindOne(tokens, "monday"))
            rec == [reqs[r] EXCEPT !.stored = token] IN
        /\ reqs' = [reqs EXCEPT ![r] = Authorize(rec, token)]
        /\ IF Falsy(token)
           THEN UNCHANGED cacheVars
           ELSE /\ mondayAccessToken' = FallbackToken(mondayAccessToken, token)
                /\ oauthToken' = token
                /\ envToken' = SeedEnv(serverFile, "fallback", envToken, token)
                /\ lastUpdate' = r
  /\ UNCHANGED <<buildVars, phase, storeVars, now>>

\* the provider answers: res.json(data) as it came, or 500 when axios rejects
CreateWebhookAnswer(r) ==
  /\ reqs[r].kind = "register"
  /\ reqs[r].pc = "calling"
  /\ \E ans \in ApiAnswers :
       reqs' = [reqs EXCEPT ![r] =
         IF ApiRejects(ans)
         THEN Respond([@ EXCEPT !.answer = ans], 500, "webhook_failed")
         ELSE Respond([@ EXCEPT !.answer = ans], 200, ans)]
  /\ UNCHANGED <<buildVars, phase, storeVars, cacheVars, now>>

\* ------------------------------------------------- POST /webhook/monday
\* req.body.challenge of the inbound body: absent, empty, or a value
Challenges == {"undefined", "", "abc"}

\* part_000: if (req.body && req.body.challenge) return res.json({challenge})
EchoesChallenge(file, challenge) == file = "part_000" /\ ~Falsy(challenge)

\* an acknowledgement without a body
Acknowledge_NoContent(rec) == Respond(rec, 204, "")
\* res.status(200).send("ok")
Acknowledge(rec) == Respond(rec, 200, "ok")

WebhookMonday(r) ==
  /\ Arrives(r)
  /\ \E challenge \in Challenges :
       LET rec == [reqs[r] EXCEPT !.kind = "webhook", !.challenge = challenge] IN
       reqs' = [reqs EXCEPT ![r] =
         IF EchoesChallenge(serverFile, challenge)
         THEN Respond([rec EXCEPT !.echo = challenge], 200, "challenge")
         ELSE Acknowledge(rec)]
  /\ UNCHANGED <<buildVars, phase, storeVars, cacheVars, now>>

Next ==
  \/ StartConnect
  \/ StartLoadToken
  \/ \E r \in Req : OAuthCallback(r)
  \/ \E r \in Req : OAuthTokenAnswer(r)
  \/ \E r \in Req : OAuthSaveDone(r)
  \/ \E r \in Req : OAuthSaveInsert(r)
  \/ \E r \in Req : CreateWebhook(r)
  \/ \E r \in Req : CreateWebhookStoreAnswer(r)
  \/ \E r \in Req : CreateWebhookAnswer(r)
  \/ \E r \in Req : WebhookMonday(r)

Spec == Init /\ [][Next]_vars

\* an awaited call settles: the promise of axios.post, saveToken or getToken
\* resolves or rejects, and the event loop runs the handler's continuation
Settle ==
  \E r \in Req :
    \/ OAuthTokenAnswer(r)
    \/ OAuthSaveDone(r)
    \/ OAuthSaveInsert(r)
    \/ CreateWebhookStoreAnswer(r)
    \/ CreateWebhookAnswer(r)

\* Node keeps running continuations as long as a settled promise is waiting
SpecLive == Init /\ [][Next]_vars /\ WF_vars(Settle)

\* ------------------------------------ the db module used by a direct client
\* (a script that requires ./db as server/test-save.js does: connectDB, then
\* calls on the tokens store, each awaited before the next)
Services == {"monday", "cliq"}
RefreshTokens == {"null", "refA"}
ExpiresIn == {-1, 1}
\* what earlier runs can have left: nothing, one record, and with part_002
\* (no unique index) two records of one service
ClientDocs(file) ==
  {<<>>, <<MakeDoc("monday", "tokB", "null", -1, 0)>>}
  \cup IF file = "part_002"
       THEN {<<MakeDoc("monday", "tokA", "null", -1, 0),
               MakeDoc("monday", "tokB", "refB", 1, 0)>>}
       ELSE {}

InitDb ==
  /\ serverFile = "server.js"
  /\ dbFile \in DbFiles
  /\ mongoUri \in BOOLEAN
  /\ phase = "boot"
  /\ db = FALSE
  /\ tokens \in ClientDocs(dbFile)
  /\ uniqueIndex = FALSE
  /\ envToken = "undefined"
  /\ mondayAccessToken = ""
  /\ oauthToken = ""
  /\ now = 1
  /\ reqs = [r \in Req |-> NewReq]
  /\ lastUpdate = -1
  /\ lastApplied = 0
  /\ dbLog = <<>>
  /\ storeAtStart = DocAccessToken(FindOne(tokens, "monday"))

serverVars == <<serverFile, dbFile, mongoUri, storeAtStart, cacheVars, reqs>>

DbConnect ==
  /\ phase = "boot"
  /\ \E ok \in BOOLEAN :
       /\ ConnectDB(ok)
       /\ phase' = IF ok THEN "client" ELSE "exited"
  /\ UNCHANGED <<serverVars, now, dbLog>>

Logged(op, service, access_token, result) ==
  Append(dbLog, [op |-> op, service |-> service, access_token |-> access_token,
                 result |-> result])

\* saveToken(service, access_token, refresh_token, expires_in)
DbSaveToken ==
  /\ phase = "client"
  /\ Len(dbLog) < MaxCalls
  /\ \E service \in Services, access \in Tokens, refresh \in RefreshTokens, exp \in ExpiresIn :
       \/ /\ ~db                         \* if (!db) return null
          /\ dbLog' = Logged("save", service, access, "null")
          /\ UNCHANGED <<tokens, now>>
       \/ /\ db                          \* updateOne rejects
          /\ dbLog' = Logged("save", service, access, "rejected")
          /\ now' = now + 1
          /\ UNCHANGED tokens
       \/ /\ db                          \* return doc
          /\ tokens' = Upsert(tokens, MakeDoc(service, access, refresh, exp, now))
          /\ now' = now + 1
          /\ dbLog' = Logged("save", service, access, "doc")
  /\ UNCHANGED <<serverVars, phase, db, uniqueIndex, lastApplied>>

\* getToken(service)
DbGetToken ==
  /\ phase = "client"
  /\ Len(dbLog) < MaxCalls
  /\ \E service \in Services :
       \/ /\ ~db                         \* if (!db) return null
          /\ dbLog' = Logged("get", service, "", "null")
       \/ /\ db                          \* findOne rejects
          /\ dbLog' = Logged("get", service, "", "rejected")
       \/ /\ db
          /\ dbLog' = Logged("get", service, "", DocAccessToken(FindOne(tokens, service)))
  /\ UNCHANGED <<serverVars, phase, storeVars, now>>

NextDb == DbConnect \/ DbSaveToken \/ DbGetToken

SpecDb == InitDb /\ [][NextDb]_vars

\* ================================================================ claims
TokenState == <<mondayAccessToken, envToken, tokens>>
CacheEmpty == Falsy(mondayAccessToken) /\ Falsy(envToken)
StoreToken == DocAccessToken(FindOne(tokens, "monday"))
IsDone(r, kind) == reqs[r].kind = kind /\ reqs[r].pc = "done"
\* the step in which request r of this kind arrives
ArrivalOf(r, kind) == reqs[r].kind = "none" /\ reqs'[r].kind = kind
\* a registration that arrives with a board id its build accepts
AcceptedRegistration(r) == ArrivalOf(r, "register") /\ reqs'[r].body # "no_board"

\* C1: a callback whose token endpoint answers without an access_token (or
\* with an empty one) is answered 500, and neither its arrival nor that
\* step changes the in-process token, the environment setting or the store.
C1_MissingTokenFails ==
  [][\A r \in Req :
       /\ ArrivalOf(r, "callback") => TokenState' = TokenState
       /\ (/\ reqs[r].kind = "callback"
           /\ reqs[r].pc = "exchanging"
           /\ reqs'[r].pc # "exchanging"
           /\ reqs'[r].answer = "answered"
           /\ Falsy(reqs'[r].granted))
          => (/\ reqs'[r].pc = "done"
              /\ reqs'[r].status = 500
              /\ TokenState' = TokenState)]_vars

C1_Witness ==
  \E r \in Req :
    /\ IsDone(r, "callback")
    /\ reqs[r].answer = "answered"
    /\ reqs[r].granted = ""
    /\ reqs[r].status = 500
    /\ mondayAccessToken = "tokB"
    /\ tokens # <<>>

\* C2: once a callback has been granted access_token T, and no other
\* exchange or seeding has written the cache since, the current token
\* (in-process value, else environment) is T, also when the store write of
\* that exchange failed.
C2_TokenSurvivesStoreFailure ==
  \A r \in Req :
    (/\ reqs[r].kind = "callback"
     /\ reqs[r].pc \in {"saving", "inserting", "done"}
     /\ reqs[r].answer = "answered"
     /\ ~Falsy(reqs[r].granted)
     /\ lastUpdate = r)
    => CurrentToken(mondayAccessToken, envToken) = reqs[r].granted

C2_Witness ==
  \E r \in Req :
    /\ IsDone(r, "callback")
    /\ reqs[r].saveFailed
    /\ reqs[r].granted = "tokB"
    /\ lastUpdate = r
    /\ CurrentToken(mondayAccessToken, envToken) = "tokB"

\* C3: a registration with an accepted board id that finds the in-process
\* token and the environment setting empty, and the store without a token
\* when it is read (or not connected), ends 400 "no token" and has issued no
\* provider call.
C3_NoTokenNoCall ==
  [][\A r \in Req :
       /\ (AcceptedRegistration(r) /\ CacheEmpty)
          => (/\ reqs'[r].calls = 0
              /\ \/ reqs'[r].pc = "reading" /\ db
                 \/ /\ reqs'[r].pc = "done"
                    /\ reqs'[r].status = 400
                    /\ reqs'[r].body = "no_token")
       /\ (/\ reqs[r].kind = "register"
           /\ reqs[r].pc = "reading"
           /\ reqs'[r].pc # "reading"
           /\ Falsy(reqs[r].cached)
           /\ Matches(tokens, "monday") = {})
          => (/\ reqs'[r].pc = "done"
              /\ reqs'[r].status = 400
              /\ reqs'[r].body = "no_token"
              /\ reqs'[r].calls = 0)]_vars

C3_Witness ==
  \E r \in Req :
    /\ IsDone(r, "register")
    /\ reqs[r].board = "123"
    /\ reqs[r].reads = 1
    /\ reqs[r].stored = "null"
    /\ db
    /\ reqs[r].status = 400
    /\ reqs[r].calls = 0

\* C4: an inbound webhook body with a challenge field is answered 200 with
\* {challenge: <the same value>}; a body without one is answered 200 "ok".
C4_ChallengeEcho ==
  \A r \in Req :
    IsDone(r, "webhook")
    => /\ reqs[r].status = 200
       /\ IF reqs[r].challenge # "undefined"
          THEN reqs[r].body = "challenge" /\ reqs[r].echo = reqs[r].challenge
          ELSE reqs[r].body = "ok"

\* C5: a registration reads the store only when the in-process token and
\* the environment setting are both empty; with a non-empty cache it sends
\* the cache's token; after a store read that found a token it sends a token
\* of the store.
C5_ResolutionOrder ==
  [][\A r \in Req :
       /\ (reqs'[r].kind = "register" /\ reqs'[r].reads > reqs[r].reads)
          => CacheEmpty
       /\ (AcceptedRegistration(r) /\ ~CacheEmpty)
          => (/\ reqs'[r].pc = "calling"
              /\ reqs'[r].reads = 0
              /\ reqs'[r].sent = IF ~Falsy(mondayAccessToken)
                                 THEN mondayAccessToken ELSE envToken)
       /\ (reqs[r].kind = "register" /\ reqs[r].pc = "reading" /\ reqs'[r].pc = "calling")
          => \E i \in Matches(tokens, "monday") :
               reqs'[r].sent = tokens[i].access_token]_vars

C5_Witness ==
  \E r1, r2 \in Req :
    /\ reqs[r1].kind = "register" /\ reqs[r1].pc = "calling"
    /\ reqs[r1].reads = 1 /\ reqs[r1].sent = "tokB"
    /\ reqs[r2].kind = "register" /\ reqs[r2].pc = "calling"
    /\ reqs[r2].reads = 0 /\ reqs[r2].sent = "tokB"

\* C6: the cache read of a registration yields the in-process value when it
\* is non-empty, else the environment setting when that is set, else absent,
\* whatever the store holds.
C6_CachePrecedence ==
  [][\A r \in Req :
       AcceptedRegistration(r)
       => IF ~Falsy(mondayAccessToken) THEN reqs'[r].cached = mondayAccessToken
          ELSE IF ~Falsy(envToken) THEN reqs'[r].cached = envToken
          ELSE Falsy(reqs'[r].cached) /\ tokens' = tokens]_vars

C6_Witness ==
  \E r \in Req :
    /\ reqs[r].kind = "register"
    /\ reqs[r].cached = "tokA"
    /\ reqs[r].reads = 0
    /\ mondayAccessToken = ""
    /\ envToken = "tokA"

\* C7: when the store held a token at process start, the server listens only
\* with that token in the in-process value and in the environment setting,
\* and no request is handled with the in-process value empty.
C7_StartupSeeding ==
  (phase = "listening" /\ ~Falsy(storeAtStart))
  => /\ ~Falsy(mondayAccessToken)
     /\ reqs[1].kind = "none"
        => (mondayAccessToken = storeAtStart /\ envToken = storeAtStart)

\* C8: two callbacks that were both granted a token both end with the
\* success response, and the store then yields the access_token of the one
\* whose upsert was applied last.
C8_LastWriterWins ==
  \A r1, r2 \in Req :
    (/\ r1 # r2
     /\ IsDone(r1, "callback") /\ ~Falsy(reqs[r1].granted)
     /\ IsDone(r2, "callback") /\ ~Falsy(reqs[r2].granted))
    => /\ reqs[r1].status = 200
       /\ reqs[r2].status = 200
       /\ lastApplied # 0 => StoreToken = reqs[lastApplied].granted

\* C9: once an update has set the in-process token, the environment setting
\* equals it.
C9_TokenMirrored ==
  lastUpdate # -1 => envToken = mondayAccessToken

\* the calls i < j of the client are a save and a get of the same service
\* with no other save of that service between them
RoundTrip(i, j) ==
  /\ i < j
  /\ dbLog[i].op = "save"
  /\ dbLog[j].op = "get"
  /\ dbLog[i].service = dbLog[j].service
  /\ \A k \in (i + 1)..(j - 1) :
       ~(dbLog[k].op = "save" /\ dbLog[k].service = dbLog[i].service)

\* C10 as stated: every save followed by a get of the same service, with no
\* other save in between, gets back the access_token saved.
C10_RoundTripAlways ==
  \A i, j \in 1..Len(dbLog) :
    RoundTrip(i, j) => dbLog[j].result = dbLog[i].access_token

\* C10 amended: the same, when the save returned the stored document (the
\* store is connected and the write did not fail) and the get did not fail.
C10_RoundTrip ==
  \A i, j \in 1..Len(dbLog) :
    (RoundTrip(i, j) /\ dbLog[i].result = "doc" /\ dbLog[j].result # "rejected")
    => dbLog[j].result = dbLog[i].access_token

C10_Witness ==
  /\ Len(dbLog) = 3
  /\ dbLog[1].op = "save" /\ dbLog[1].service = "monday" /\ dbLog[1].result = "doc"
  /\ dbLog[1].access_token = "tokB"
  /\ RoundTrip(2, 3) /\ dbLog[2].service = "monday" /\ dbLog[2].result = "doc"
  /\ dbLog[3].result = "tokA"

\* a callback that was granted a token and whose save the store applied
Stored(r) ==
  /\ IsDone(r, "callback")
  /\ ~Falsy(reqs[r].granted)
  /\ reqs[r].doc # NoDoc
  /\ ~reqs[r].saveFailed

\* C11: after two saves for the same service that the store applied, the
\* store holds exactly one record for the service, and the record is, field
\* by field, the document of the save applied last.
C11_SecondSaveSupersedes ==
  \A r1, r2 \in Req :
    (r1 # r2 /\ Stored(r1) /\ Stored(r2) /\ lastApplied = r2)
    => /\ Cardinality(Matches(tokens, "monday")) = 1
       /\ FindOne(tokens, "monday") = reqs[r2].doc

\* C12: the store holds at most one record per service.
C12_OneRecordPerService ==
  \A service \in {"monday", "cliq"} : Cardinality(Matches(tokens, service)) <= 1

\* C13: when the store write of a granted exchange fails, the request is
\* answered with the success response, the step changes neither the
\* in-process token nor the environment setting, and while that exchange is
\* the last writer of the cache both hold the granted token.
C13_BestEffortSave ==
  [][\A r \in Req :
       (/\ reqs[r].kind = "callback"
        /\ reqs[r].pc = "saving"
        /\ reqs'[r].saveFailed)
       => (/\ reqs'[r].pc = "done"
           /\ reqs'[r].status = 200
           /\ reqs'[r].body = "oauth_complete"
           /\ reqs'[r].responses = 1
           /\ mondayAccessToken' = mondayAccessToken
           /\ envToken' = envToken
           /\ lastUpdate = r
              => (/\ mondayAccessToken' = reqs[r].granted
                  /\ envToken' = reqs[r].granted))]_vars

C13_Witness ==
  \E r \in Req :
    /\ IsDone(r, "callback")
    /\ reqs[r].saveFailed
    /\ reqs[r].status = 200
    /\ mondayAccessToken = "tokA"
    /\ envToken = "tokA"
    /\ StoreToken = "tokB"

\* C14: a registration whose provider call fails in transport, or is
\* answered with an error by the provider (a non-2xx status, or a GraphQL
\* errors body), ends 500; any other answer is returned as it came, with 200.
C14_FailureSurfaced ==
  \A r \in Req :
    (IsDone(r, "register") /\ reqs[r].calls = 1)
    => IF reqs[r].answer \in {"transport", "non2xx", "errors"}
       THEN reqs[r].status = 500
       ELSE reqs[r].status = 200 /\ reqs[r].body = reqs[r].answer

\* C15: getToken never raises: the last call of the client, when it is a get,
\* returned the access_token of the matching record, or absent when there is
\* none or no store is connected.
C15_GetNeverRaises ==
  (Len(dbLog) > 0 /\ dbLog[Len(dbLog)].op = "get")
  => LET call == dbLog[Len(dbLog)] IN
     /\ call.result # "rejected"
     /\ call.result = IF db /\ Matches(tokens, call.service) # {}
                      THEN FindOne(tokens, call.service).access_token
                      ELSE "null"

\* C16: with no connection string the server still starts and listens, no
\* handler ever waits for the store, no save fails, no record is created,
\* every granted exchange ends with the success response, and a
\* registration that arrives after an exchange has set the token calls the
\* provider with that token without a store read.
DegradedState ==
  ~mongoUri
  => /\ ~db
     /\ tokens = <<>>
     /\ phase # "exited"
     /\ \A r \in Req :
          /\ reqs[r].pc \notin {"saving", "inserting", "reading"}
          /\ ~reqs[r].saveFailed
          /\ reqs[r].stored \in {"", "null"}
          /\ (IsDone(r, "callback") /\ ~Falsy(reqs[r].granted))
             => (reqs[r].status = 200 /\ reqs[r].body = "oauth_complete")
DegradedStep ==
  \A r \in Req :
    (~mongoUri /\ AcceptedRegistration(r) /\ lastUpdate \in Req)
    => /\ reqs'[r].pc = "calling"
       /\ reqs'[r].reads = 0
       /\ reqs'[r].sent = reqs[lastUpdate].granted
C16_DegradedMode == []DegradedState /\ [][DegradedStep]_vars

C16_Witness ==
  \E r1, r2 \in Req :
    /\ ~mongoUri
    /\ phase = "listening"
    /\ IsDone(r1, "callback") /\ reqs[r1].status = 200 /\ reqs[r1].granted = "tokB"
    /\ IsDone(r2, "register") /\ reqs[r2].status = 200 /\ reqs[r2].body = "data"
    /\ reqs[r2].sent = "tokB"
    /\ tokens = <<>>

\* C17: a callback that carries a code issues exactly one POST; when the
\* POST fails (transport or non-2xx) the request is answered 500 without a
\* second POST and without a change of the token state, and a request that
\* has been answered never changes again.
C17_FireOnce ==
  [][\A r \in Req :
       /\ reqs'[r].posts <= 1
       /\ (ArrivalOf(r, "callback") /\ ~Falsy(reqs'[r].code)) => reqs'[r].posts = 1
       /\ (/\ reqs[r].kind = "callback"
           /\ reqs[r].pc = "exchanging"
           /\ reqs'[r] # reqs[r]
           /\ reqs'[r].answer = "rejected")
          => (/\ reqs'[r].pc = "done"
              /\ reqs'[r].status = 500
              /\ reqs'[r].posts = 1
              /\ TokenState' = TokenState)
       /\ reqs[r].pc = "done" => reqs'[r] = reqs[r]]_vars

C17_Witness ==
  \E r \in Req :
    /\ IsDone(r, "callback")
    /\ reqs[r].answer = "rejected"
    /\ reqs[r].status = 500
    /\ reqs[r].posts = 1
    /\ mondayAccessToken = "tokB"
    /\ StoreToken = "tokB"

\* C18: a callback without a code is answered 400 at once, with no POST to
\* the token endpoint, no store operation and no change of the token state.
C18_MissingCode ==
  [][\A r \in Req :
       (ArrivalOf(r, "callback") /\ Falsy(reqs'[r].code))
       => (/\ reqs'[r].pc = "done"
           /\ reqs'[r].status = 400
           /\ reqs'[r].posts = 0
           /\ reqs'[r].reads = 0
           /\ reqs'[r].doc = NoDoc
           /\ TokenState' = TokenState
           /\ now' = now)]_vars

C18_Witness ==
  \E r \in Req :
    /\ IsDone(r, "callback")
    /\ reqs[r].code = "undefined"
    /\ reqs[r].status = 400
    /\ reqs[r].posts = 0
    /\ db

\* C19: a registration without a board id is answered 400 at once, with no
\* store read and no provider call, also when the cache is empty and the
\* store holds a token.
C19_MissingBoard ==
  [][\A r \in Req :
       (ArrivalOf(r, "register") /\ Falsy(reqs'[r].board))
       => (/\ reqs'[r].pc = "done"
           /\ reqs'[r].status = 400
           /\ reqs'[r].body = "no_board"
           /\ reqs'[r].reads = 0
           /\ reqs'[r].calls = 0
           /\ TokenState' = TokenState)]_vars

C19_Witness ==
  \E r \in Req :
    /\ IsDone(r, "register")
    /\ reqs[r].board = "undefined"
    /\ reqs[r].status = 400
    /\ reqs[r].reads = 0
    /\ CacheEmpty
    /\ db
    /\ StoreToken = "tokB"

\* C20: an inbound webhook POST is answered 200 in the step in which it
\* arrives, whatever the token state and the other requests in flight, and
\* that step changes no token state and issues no provider or store call.
C20_ReceiverStateless ==
  [][\A r \in Req :
       ArrivalOf(r, "webhook")
       => (/\ reqs'[r].pc = "done"
           /\ reqs'[r].status = 200
           /\ reqs'[r].responses = 1
           /\ reqs'[r].reads = 0
           /\ reqs'[r].calls = 0
           /\ reqs'[r].posts = 0
           /\ TokenState' = TokenState
           /\ <<db, oauthToken, lastUpdate, lastApplied, now>>' =
              <<db, oauthToken, lastUpdate, lastApplied, now>>
           /\ \A q \in Req \ {r} : reqs'[q] = reqs[q])]_vars

C20_Witness ==
  \E r, q \in Req :
    /\ IsDone(r, "webhook")
    /\ reqs[r].status = 200
    /\ reqs[q].kind = "callback"
    /\ reqs[q].pc = "saving"
    /\ CacheEmpty = FALSE

\* a registration that has taken a non-empty token out of the store
ResolvedFromStore(q) ==
  /\ reqs[q].kind = "register"
  /\ reqs[q].pc \in {"calling", "done"}
  /\ reqs[q].reads = 1
  /\ reqs[q].stored \in Tokens

\* C21: a request reads the store only in the step in which a registration
\* arrives and finds the variable and the environment setting both empty
\* (the only other read is the one of start(), before the process listens);
\* and once some registration has taken a non-empty token out of the store,
\* a registration that arrives later does not read the store: it finds the
\* cache non-empty and sends the cached token to the provider.
C21_StoreFallbackSeedsCache ==
  [][\A r \in Req :
       /\ reqs'[r].reads # reqs[r].reads
          => (/\ ArrivalOf(r, "register")
              /\ phase = "listening"
              /\ Falsy(CurrentToken(mondayAccessToken, envToken))
              /\ reqs'[r].reads = 1)
       /\ (ArrivalOf(r, "register") /\ \E q \in Req \ {r} : ResolvedFromStore(q))
          => (/\ reqs'[r].reads = 0
              /\ ~BoardMissing(serverFile, reqs'[r].board)
                 => (/\ ~Falsy(reqs'[r].cached)
                     /\ reqs'[r].cached = CurrentToken(mondayAccessToken, envToken)
                     /\ reqs'[r].pc = "calling"
                     /\ reqs'[r].sent = reqs'[r].cached))]_vars

C21_Witness ==
  \E q, r \in Req :
    /\ q < r
    /\ ResolvedFromStore(q)
    /\ Falsy(reqs[q].cached)
    /\ reqs[r].kind = "register"
    /\ reqs[r].pc = "calling"
    /\ reqs[r].reads = 0
    /\ reqs[r].sent = reqs[q].stored

\* no callback is between its arrival and its response
NoExchangeInFlight ==
  \A r \in Req : reqs[r].kind = "callback" => reqs[r].pc = "done"

\* C22: with a store connected, when no callback is in flight, at least one
\* exchange has set the token and had its upsert applied, and no saveToken
\* call has failed, the access_token the store yields for 'monday' equals
\* the in-process token.
C22_AgreementAtQuiescence ==
  (/\ db
   /\ NoExchangeInFlight
   /\ \E r \in Req : Stored(r)
   /\ \A r \in Req : ~reqs[r].saveFailed)
  => StoreToken = mondayAccessToken

\* request r gets a response other than the success response in this step
FailsNow(r, kind) ==
  /\ reqs'[r].kind = kind
  /\ reqs[r].pc # "done"
  /\ reqs'[r].pc = "done"
  /\ reqs'[r].status # 200

\* C23: no step takes the in-process token from non-empty to empty, nor the
\* token the cache resolves to; and a step in which a callback fails (400 or
\* 500), a registration fails or a webhook is received leaves the variable
\* and the environment setting as they were.
C23_TokenNeverLost ==
  [][/\ ~Falsy(mondayAccessToken) => ~Falsy(mondayAccessToken')
     /\ ~Falsy(CurrentToken(mondayAccessToken, envToken))
        => ~Falsy(CurrentToken(mondayAccessToken', envToken'))
     /\ \A r \in Req :
          \/ FailsNow(r, "callback")
          \/ FailsNow(r, "register")
          \/ ArrivalOf(r, "webhook")
          => <<mondayAccessToken, envToken>>' = <<mondayAccessToken, envToken>>]_vars

C23_Witness ==
  \E r, q \in Req :
    /\ lastUpdate = 0
    /\ mondayAccessToken = "tokB"
    /\ IsDone(r, "callback")
    /\ reqs[r].posts = 1
    /\ reqs[r].status = 500
    /\ IsDone(q, "register")
    /\ reqs[q].status = 500

\* a callback or registration that has arrived has got its one response
Answered(r) ==
  reqs[r].kind \in {"callback", "register"}
  => (reqs[r].pc = "done" /\ reqs[r].responses = 1 /\ reqs[r].status # 0)

\* C24: no request ever has two responses, and a handler that is over has
\* sent exactly one; and when awaited provider and store calls keep
\* settling, from some point on every callback and every registration that
\* has arrived has its one response (a response, once sent, stays sent, so
\* this says that each such request is eventually answered exactly once).
C24_ExactlyOneResponse ==
  /\ [](\A r \in Req : /\ reqs[r].responses <= 1
                        /\ reqs[r].pc = "done" <=> reqs[r].responses = 1)
  /\ <>[](\A r \in Req : Answered(r))

C24_Witness ==
  \E r, q \in Req :
    /\ IsDone(r, "callback")
    /\ reqs[r].saveFailed
    /\ reqs[r].responses = 1
    /\ IsDone(q, "register")
    /\ reqs[q].reads = 1
    /\ reqs[q].answer = "transport"
    /\ reqs[q].responses = 1
====
